---- MODULE Spec2Model ----
(***************************************************************************)
(* Model of the CPF library (package cpf: UnformatCPF, IsRepeated,         *)
(* FormatCPF, calc, getCD, ValidateCPF, GenerateCPF) and of its batch      *)
(* layer (ProcessFile, ValidateProcessor, FormatProcessor,                 *)
(* GenerateCPFsJSON, WriteJSONOutput).                                     *)
(*                                                                         *)
(* A Go string is a sequence of one-character strings; a []int is a        *)
(* sequence of integers; a Go error is a string, nil being the value nil.  *)
(* One library call is made per behaviour: Init draws the call and its     *)
(* arguments, the call's action applies the code to it, and a call that    *)
(* returns a result list may be followed by WriteJSONOutput (Spec).        *)
(*                                                                         *)
(* The command line (package main) and package telemetry are modelled by   *)
(* CliSpec: processes run one after another on a machine that keeps        *)
(* telemetry.json between them; each runs func main on its arguments, and  *)
(* the goroutines Track started may post their event before it is gone.    *)
(***************************************************************************)
EXTENDS Integers, Sequences, FiniteSets, TLC

VARIABLES pc, call, ret, rand, output, proc, tele, net

\* the state of the command-line process, of package telemetry and of the collector
cliVars == <<proc, tele, net>>

\* the state of a library call
libVars == <<pc, call, ret, rand, output>>

vars == <<pc, call, ret, rand, output, proc, tele, net>>

---------------------------------------------------------------------------
(* Bounds of the model *)

\* largest step of the digit progressions the inputs and the random source draw from
MaxStep == 3
\* longest digit string handed to ValidateCPF / FormatCPF
MaxDigits == 12
\* most lines in a file handed to ProcessFile
MaxLines == 3
\* largest count handed to GenerateCPFsJSON
MaxCount == 2
\* latest draw at which the random source may fail
MaxFailAt == 12

---------------------------------------------------------------------------
(* Characters and the conversions between digits and characters *)

DigitChars == <<"0", "1", "2", "3", "4", "5", "6", "7", "8", "9">>

\* the class [0-9] that \D complements
IsDigit(ch) == \E i \in 1..10 : DigitChars[i] = ch

\* unicode.IsSpace on the characters the inputs use
IsSpace(ch) == ch \in {" ", "\t", "\r"}

nil == "<nil>"

\* strconv.Itoa for n >= 0: the decimal rendering, most significant digit first
RECURSIVE Itoa(_)
Itoa(n) == IF n < 10 THEN <<DigitChars[n + 1]>>
           ELSE Itoa(n \div 10) \o <<DigitChars[(n % 10) + 1]>>

\* strconv.Atoi(string(ch)) for a single character
Atoi(ch) == IF IsDigit(ch)
            THEN [val |-> (CHOOSE d \in 0..9 : DigitChars[d + 1] = ch), err |-> nil]
            ELSE [val |-> 0, err |-> "strconv.Atoi: invalid syntax"]

\* strings.TrimSpace: drop the leading and the trailing white space
RECURSIVE TrimLeft(_)
TrimLeft(s) == IF s # <<>> /\ IsSpace(Head(s)) THEN TrimLeft(Tail(s)) ELSE s

RECURSIVE TrimRight(_)
TrimRight(s) == IF s # <<>> /\ IsSpace(s[Len(s)])
                THEN TrimRight(SubSeq(s, 1, Len(s) - 1)) ELSE s

TrimSpace(s) == TrimRight(TrimLeft(s))

---------------------------------------------------------------------------
(* package cpf: the checksum engine *)

NotPunctuation(ch) == ch \notin {".", "-"}

\* UnformatCPF removing the separators of the formatted form only
UnformatCPFSeparatorsOnly(cpfStr) == SelectSeq(cpfStr, NotPunctuation)

\* regexp \D replaced by "": every character that is not 0-9 is removed
UnformatCPF(cpfStr) == SelectSeq(cpfStr, IsDigit)

IsRepeated(s) ==
    IF Len(s) = 0 THEN FALSE
    ELSE \A i \in 2..Len(s) : s[i] = s[1]

\* FormatCPF with the last group cut one digit early (digits[8:11])
FormatCPFOverlappingGroup(cpfStr) ==
    LET digits == SelectSeq(cpfStr, IsDigit) IN
    IF Len(digits) # 11
    THEN [val |-> <<>>, err |-> "invalid CPF number (must have 11 digits)"]
    ELSE [val |-> SubSeq(digits, 1, 3) \o <<".">> \o SubSeq(digits, 4, 6) \o <<".">>
                  \o SubSeq(digits, 7, 9) \o <<"-">> \o SubSeq(digits, 9, 11),
          err |-> nil]

\* FormatCPF with the length test written as "fewer than 11"
FormatCPFAtLeastEleven(cpfStr) ==
    LET digits == UnformatCPF(cpfStr) IN
    IF Len(digits) < 11
    THEN [val |-> <<>>, err |-> "invalid CPF number (must have 11 digits)"]
    ELSE [val |-> SubSeq(digits, 1, 3) \o <<".">> \o SubSeq(digits, 4, 6) \o <<".">>
                  \o SubSeq(digits, 7, 9) \o <<"-">> \o SubSeq(digits, 10, 11),
          err |-> nil]

ErrFormatLength == "invalid CPF number (must have 11 digits)"

FormatCPF(cpfStr) ==
    LET digits == UnformatCPF(cpfStr) IN
    IF Len(digits) # 11
    THEN [val |-> <<>>, err |-> ErrFormatLength]
    ELSE [val |-> SubSeq(digits, 1, 3) \o <<".">> \o SubSeq(digits, 4, 6) \o <<".">>
                  \o SubSeq(digits, 7, 9) \o <<"-">> \o SubSeq(digits, 10, 11),
          err |-> nil]

\* total += num * (9 - (i % 10)), i the 0-based index
RECURSIVE calcFrom(_, _)
calcFrom(nums, i) ==
    IF i >= Len(nums) THEN 0
    ELSE nums[i + 1] * (9 - (i % 10)) + calcFrom(nums, i + 1)

calc(nums) == calcFrom(nums, 0)

\* getCD with the second digit computed without the first
getCDNoCarry(digits9) ==
    IF Len(digits9) # 9
    THEN [cd |-> <<0, 0>>, err |-> "invalid digits length: expected 9"]
    ELSE LET reversed == [i \in 1..9 |-> digits9[9 - (i - 1)]]
             cd1 == (calc(reversed) % 11) % 10
             cd2 == (calc(<<0>> \o reversed) % 11) % 10
         IN  [cd |-> <<cd1, cd2>>, err |-> nil]

\* getCD with the remainders reduced modulo 11 only
getCDSingleMod(digits9) ==
    IF Len(digits9) # 9
    THEN [cd |-> <<0, 0>>, err |-> "invalid digits length: expected 9"]
    ELSE LET reversed == [i \in 1..9 |-> digits9[9 - (i - 1)]]
             cd1 == calc(reversed) % 11
             cd2 == (calc(<<0>> \o reversed) + cd1 * 9) % 11
         IN  [cd |-> <<cd1, cd2>>, err |-> nil]

ErrDigitsLength == "invalid digits length: expected 9"

getCD(digits9) ==
    IF Len(digits9) # 9
    THEN [cd |-> <<0, 0>>, err |-> ErrDigitsLength]
    ELSE LET reversed == [i \in 1..9 |-> digits9[9 - (i - 1)]]
             cd1 == (calc(reversed) % 11) % 10
             secondInput == <<0>> \o reversed
             cd2 == ((calc(secondInput) + cd1 * 9) % 11) % 10
         IN  [cd |-> <<cd1, cd2>>, err |-> nil]

\* ValidateCPF measuring the text it is given instead of its digits
ValidateCPFRawLength(cpfStr, byLength) ==
    LET unformatted == UnformatCPF(cpfStr) IN
    IF Len(cpfStr) # 11 THEN FALSE
    ELSE IF Len(unformatted) # 11 THEN FALSE
    ELSE IF IsRepeated(unformatted) THEN FALSE
    ELSE IF byLength THEN TRUE
    ELSE LET number9 == SubSeq(unformatted, 1, 9)
             dv2 == SubSeq(unformatted, 10, 11)
             digits9 == [i \in 1..9 |-> Atoi(number9[i]).val]
             r == getCD(digits9)
         IN  dv2 = Itoa(r.cd[1]) \o Itoa(r.cd[2])

\* ValidateCPF without the test for one repeated digit
ValidateCPFNoRepeatCheck(cpfStr, byLength) ==
    LET unformatted == UnformatCPF(cpfStr) IN
    IF Len(unformatted) # 11 THEN FALSE
    ELSE IF byLength THEN TRUE
    ELSE LET r == getCD([i \in 1..9 |-> Atoi(unformatted[i]).val])
         IN  SubSeq(unformatted, 10, 11) = Itoa(r.cd[1]) \o Itoa(r.cd[2])

\* ValidateCPF with the byLength flag never read
ValidateCPFIgnoreByLength(cpfStr, byLength) ==
    LET unformatted == UnformatCPF(cpfStr) IN
    IF Len(unformatted) # 11 THEN FALSE
    ELSE IF IsRepeated(unformatted) THEN FALSE
    ELSE LET r == getCD([i \in 1..9 |-> Atoi(unformatted[i]).val])
         IN  SubSeq(unformatted, 10, 11) = Itoa(r.cd[1]) \o Itoa(r.cd[2])

ValidateCPF(cpfStr, byLength) ==
    LET unformatted == UnformatCPF(cpfStr) IN
    IF Len(unformatted) # 11 THEN FALSE
    ELSE IF IsRepeated(unformatted) THEN FALSE
    ELSE IF byLength THEN TRUE
    ELSE LET number9 == SubSeq(unformatted, 1, 9)
             dv2 == SubSeq(unformatted, 10, 11)
         IN  IF \E i \in 1..9 : Atoi(number9[i]).err # nil THEN FALSE
             ELSE LET digits9 == [i \in 1..9 |-> Atoi(number9[i]).val]
                      r == getCD(digits9)
                  IN  IF r.err # nil THEN FALSE
                      ELSE LET trueDV == Itoa(r.cd[1]) \o Itoa(r.cd[2])
                           IN  dv2 = trueDV

---------------------------------------------------------------------------
(* crypto/rand as the generator sees it: the k-th draw of a source yields   *)
(* the k-th term of a digit progression, or fails when k = failAt.          *)

cryptoRandInt(max, src) ==
    LET next == [src EXCEPT !.pos = src.pos + 1] IN
    IF next.pos = src.failAt
    THEN [val |-> 0, err |-> "rand: read failed", src |-> next]
    ELSE [val |-> (src.start + src.step * src.pos) % max, err |-> nil, src |-> next]

\* the loop "for i := 0; i < 9; i++" of GenerateCPF, left at the first failing draw
RECURSIVE DrawDigits(_, _)
DrawDigits(n, src) ==
    IF n = 0 THEN [digits |-> <<>>, err |-> nil, src |-> src]
    ELSE LET before == DrawDigits(n - 1, src) IN
         IF before.err # nil THEN before
         ELSE LET d == cryptoRandInt(10, before.src) IN
              IF d.err # nil
              THEN [digits |-> before.digits, err |-> d.err, src |-> d.src]
              ELSE [digits |-> Append(before.digits, d.val), err |-> nil, src |-> d.src]

\* cpfStr.WriteString(strconv.Itoa(d)) for every d of allDigits
RECURSIVE WriteDigits(_)
WriteDigits(allDigits) ==
    IF allDigits = <<>> THEN <<>>
    ELSE Itoa(Head(allDigits)) \o WriteDigits(Tail(allDigits))

ErrRandomDigit == "failed to generate random digit"

GenerateCPF(formatted, invalid, src) ==
    LET nine == DrawDigits(9, src) IN
    IF nine.err # nil THEN [val |-> <<>>, err |-> ErrRandomDigit, src |-> nine.src]
    ELSE
    LET digits9 == nine.digits
        d1 == cryptoRandInt(10, nine.src)
        d2 == cryptoRandInt(10, d1.src)
        correctDV == getCD(digits9)
    IN
    IF invalid /\ d1.err # nil THEN [val |-> <<>>, err |-> ErrRandomDigit, src |-> d1.src]
    ELSE IF invalid /\ d2.err # nil THEN [val |-> <<>>, err |-> ErrRandomDigit, src |-> d2.src]
    ELSE IF ~invalid /\ correctDV.err # nil
         THEN [val |-> <<>>, err |-> "failed to generate check digits", src |-> nine.src]
    ELSE
    LET dv == IF invalid THEN <<d1.val, d2.val>> ELSE correctDV.cd
        after == IF invalid THEN d2.src ELSE nine.src
        allDigits == digits9 \o <<dv[1], dv[2]>>
        cpfStr == WriteDigits(allDigits)
        result == FormatCPF(cpfStr)
    IN
    IF formatted
    THEN IF result.err # nil
         THEN [val |-> <<>>, err |-> "failed to format CPF", src |-> after]
         ELSE [val |-> result.val, err |-> nil, src |-> after]
    ELSE [val |-> cpfStr, err |-> nil, src |-> after]

---------------------------------------------------------------------------
(* package cpf: the batch layer *)

\* a []CPFResult: the nil slice, or a slice with elements
NilSlice == [isNil |-> TRUE, elems |-> <<>>]

MakeSlice == [isNil |-> FALSE, elems |-> <<>>]

AppendSlice(slice, x) == [isNil |-> FALSE, elems |-> Append(slice.elems, x)]

ValidateProcessor(cpf) ==
    [CPF |-> cpf, Valid |-> ValidateCPF(cpf, FALSE), Error |-> "", Original |-> cpf]

FormatProcessor(cpf) ==
    LET r == FormatCPF(cpf) IN
    IF r.err # nil
    THEN [CPF |-> cpf, Valid |-> FALSE, Error |-> r.err, Original |-> cpf]
    ELSE [CPF |-> r.val, Valid |-> FALSE, Error |-> "", Original |-> cpf]

\* the processFunc argument of ProcessFile, given by the name of the processor
processFunc(processor, line) ==
    IF processor = "validate" THEN ValidateProcessor(line) ELSE FormatProcessor(line)

\* the scanning loop with the blank test made on the line before it is trimmed
RECURSIVE ScanLoopBlankBeforeTrim(_, _, _)
ScanLoopBlankBeforeTrim(lines, processor, results) ==
    IF lines = <<>> THEN results
    ELSE IF Head(lines) = <<>>
         THEN ScanLoopBlankBeforeTrim(Tail(lines), processor, results)
         ELSE ScanLoopBlankBeforeTrim(Tail(lines), processor,
                  AppendSlice(results, processFunc(processor, TrimSpace(Head(lines)))))

\* the loop "for scanner.Scan()" over the lines the scanner delivers
RECURSIVE ScanLoop(_, _, _)
ScanLoop(lines, processor, results) ==
    IF lines = <<>> THEN results
    ELSE LET line == TrimSpace(Head(lines)) IN
         IF line = <<>>
         THEN ScanLoop(Tail(lines), processor, results)
         ELSE ScanLoop(Tail(lines), processor,
                       AppendSlice(results, processFunc(processor, line)))

\* file: whether it can be opened, the lines the scanner splits it into, and
\* the line at which reading fails (0: never)
ProcessFile(file, processor) ==
    IF ~file.exists
    THEN [results |-> NilSlice, err |-> "failed to open file"]
    ELSE LET delivered == IF file.readErrAt = 0 THEN file.lines
                          ELSE SubSeq(file.lines, 1, file.readErrAt - 1)
             results == ScanLoop(delivered, processor, NilSlice)
         IN  IF file.readErrAt # 0
             THEN [results |-> NilSlice, err |-> "error reading file"]
             ELSE [results |-> results, err |-> nil]

\* the loop "for i := 0; i < count; i++" of GenerateCPFsJSON
RECURSIVE GenerateLoop(_, _, _, _, _)
GenerateLoop(i, count, formatted, invalid, acc) ==
    IF i >= count \/ acc.err # nil THEN acc
    ELSE LET g == GenerateCPF(formatted, invalid, acc.src) IN
         IF g.err # nil
         THEN [results |-> NilSlice, err |-> g.err, src |-> g.src]
         ELSE GenerateLoop(i + 1, count, formatted, invalid,
                  [results |-> AppendSlice(acc.results,
                                   [CPF |-> g.val, Valid |-> FALSE,
                                    Error |-> "", Original |-> <<>>]),
                   err |-> nil, src |-> g.src])

\* the generating loop returning what it has when a generation fails
RECURSIVE GenerateLoopPartial(_, _, _, _, _)
GenerateLoopPartial(i, count, formatted, invalid, acc) ==
    IF i >= count \/ acc.err # nil THEN acc
    ELSE LET g == GenerateCPF(formatted, invalid, acc.src) IN
         IF g.err # nil
         THEN [results |-> acc.results, err |-> g.err, src |-> g.src]
         ELSE GenerateLoopPartial(i + 1, count, formatted, invalid,
                  [results |-> AppendSlice(acc.results,
                                   [CPF |-> g.val, Valid |-> FALSE,
                                    Error |-> "", Original |-> <<>>]),
                   err |-> nil, src |-> g.src])

GenerateCPFsJSONPartial(count, formatted, invalid, src) ==
    GenerateLoopPartial(0, count, formatted, invalid,
                        [results |-> MakeSlice, err |-> nil, src |-> src])

GenerateCPFsJSON(count, formatted, invalid, src) ==
    GenerateLoop(0, count, formatted, invalid,
                 [results |-> MakeSlice, err |-> nil, src |-> src])

\* encoding/json on one CPFResult: the fields in declaration order, a field
\* tagged omitempty left out when it holds its zero value
MarshalResult(r) ==
    <<  <<"cpf", r.CPF>> >>
    \o (IF r.Valid # FALSE THEN << <<"valid", r.Valid>> >> ELSE <<>>)
    \o (IF r.Error # "" THEN << <<"error", r.Error>> >> ELSE <<>>)
    \o (IF r.Original # <<>> THEN << <<"original", r.Original>> >> ELSE <<>>)

\* json.MarshalIndent on a []CPFResult: null for the nil slice, else an array
MarshalIndent(results) ==
    [null |-> results.isNil,
     objects |-> [i \in 1..Len(results.elems) |-> MarshalResult(results.elems[i])]]

NoData == [written |-> FALSE, null |-> FALSE, objects |-> <<>>]

Written(data) == [written |-> TRUE, null |-> data.null, objects |-> data.objects]

\* outputFile "" writes to stdout; writable: whether os.WriteFile succeeds
WriteJSONOutput(results, outputFile, writable) ==
    LET data == MarshalIndent(results) IN
    IF outputFile # <<>>
    THEN IF ~writable
         THEN [err |-> "error writing to file", stdout |-> NoData, file |-> NoData]
         ELSE [err |-> nil, stdout |-> NoData, file |-> Written(data)]
    ELSE [err |-> nil, stdout |-> Written(data), file |-> NoData]

---------------------------------------------------------------------------
(* packages strings and strconv, as main uses them *)

UpperChars == <<"A", "B", "C", "D", "E", "F", "G", "H", "I", "J", "K", "L", "M", "N", "O", "P", "Q", "R", "S", "T", "U", "V", "W", "X", "Y", "Z">>

LowerChars == <<"a", "b", "c", "d", "e", "f", "g", "h", "i", "j", "k", "l", "m", "n", "o", "p", "q", "r", "s", "t", "u", "v", "w", "x", "y", "z">>

ToLowerChar(ch) ==
    IF \E i \in 1..Len(UpperChars) : UpperChars[i] = ch
    THEN LowerChars[CHOOSE i \in 1..Len(UpperChars) : UpperChars[i] = ch]
    ELSE ch

ToLower(s) == [i \in 1..Len(s) |-> ToLowerChar(s[i])]

HasPrefix(s, prefix) == Len(s) >= Len(prefix) /\ SubSeq(s, 1, Len(prefix)) = prefix

TrimPrefix(s, prefix) ==
    IF HasPrefix(s, prefix) THEN SubSeq(s, Len(prefix) + 1, Len(s)) ELSE s

\* strings.Join with the separator written after every element
RECURSIVE JoinTrailing(_, _)
JoinTrailing(elems, sep) ==
    IF elems = <<>> THEN <<>>
    ELSE Head(elems) \o sep \o JoinTrailing(Tail(elems), sep)

RECURSIVE Join(_, _)
Join(elems, sep) ==
    IF elems = <<>> THEN <<>>
    ELSE IF Len(elems) = 1 THEN Head(elems)
    ELSE Head(elems) \o sep \o Join(Tail(elems), sep)

RECURSIVE ParseDigits(_, _)
ParseDigits(s, acc) ==
    IF s = <<>> THEN acc
    ELSE ParseDigits(Tail(s), acc * 10 + Atoi(Head(s)).val)

\* strconv.Atoi: an optional sign and at least one decimal digit
strconvAtoi(s) ==
    LET signed == s # <<>> /\ Head(s) \in {"+", "-"}
        body == IF signed THEN Tail(s) ELSE s
    IN  IF body = <<>> \/ \E i \in 1..Len(body) : ~IsDigit(body[i])
        THEN [val |-> 0, err |-> "invalid syntax"]
        ELSE [val |-> IF signed /\ Head(s) = "-" THEN 0 - ParseDigits(body, 0)
                      ELSE ParseDigits(body, 0),
              err |-> nil]

---------------------------------------------------------------------------
(* package telemetry *)

\* the *Config in memory: nil until Initialize allocates it
NilConfig == [isNil |-> TRUE, Enabled |-> FALSE]

\* telemetry.json: absent, or holding the Enabled flag
NoConfigFile == [exists |-> FALSE, Enabled |-> FALSE]

\* an error value of main and of Track: nil, or a message made of text pieces
NilErr == [isNil |-> TRUE, text |-> <<>>]

Errorf(text) == [isNil |-> FALSE, text |-> text]

\* env: what the file system does to this process ("ok", "nohome": UserHomeDir
\* or MkdirAll fails, "noread": ReadFile fails, "nowrite": WriteFile fails)
loadConfig(t, env) ==
    IF env = "noread" \/ ~t.disk.exists
    THEN [tele |-> t, err |-> "read"]
    ELSE [tele |-> [t EXCEPT !.config = [isNil |-> FALSE, Enabled |-> t.disk.Enabled]],
          err |-> nil]

saveConfig(t, env) ==
    IF env = "nowrite"
    THEN [tele |-> t, err |-> "write"]
    ELSE [tele |-> [t EXCEPT !.disk = [exists |-> TRUE, Enabled |-> t.config.Enabled]],
          err |-> nil]

Initialize(t, env) ==
    IF env = "nohome"
    THEN [tele |-> t, err |-> "failed to get home directory", loaded |-> FALSE]
    ELSE LET fresh == [t EXCEPT !.config = [isNil |-> FALSE, Enabled |-> FALSE]]
             l == loadConfig(fresh, env)
         IN  IF l.err # nil
             THEN LET s == saveConfig([fresh EXCEPT !.config.Enabled = FALSE], env) IN
                  IF s.err # nil
                  THEN [tele |-> s.tele, err |-> "failed to save default config",
                        loaded |-> FALSE]
                  ELSE [tele |-> s.tele, err |-> nil, loaded |-> FALSE]
             ELSE [tele |-> l.tele, err |-> nil, loaded |-> TRUE]

\* panics on the nil *Config
SetEnabled(t, enabled, env) ==
    IF t.config.isNil
    THEN [tele |-> t, err |-> nil, panic |-> TRUE]
    ELSE LET s == saveConfig([t EXCEPT !.config.Enabled = enabled], env) IN
         [tele |-> s.tele, err |-> s.err, panic |-> FALSE]

\* IsEnabled looking at the build's key only
IsEnabledKeyOnly(t) == t.apiKey

IsEnabled(t) == ~t.config.isNil /\ t.config.Enabled /\ t.apiKey

\* metadata: a map[string]string as a sequence of <<key, value>> (nil: <<>>)
Track(n, t, command, success, err, metadata) ==
    IF ~IsEnabled(t) THEN n
    ELSE [n EXCEPT !.pending = Append(@,
              [Command |-> command, Success |-> success,
               Error |-> IF err.isNil THEN <<>> ELSE err.text,
               Metadata |-> metadata])]

\* the properties of the PostHog event, each value as the text it is encoded from
sendEvent(event) ==
    << <<"command", event.Command>>,
       <<"success", IF event.Success THEN <<"true">> ELSE <<"false">> >>,
       <<"os", <<"GOOS">> >>,
       <<"arch", <<"GOARCH">> >>,
       <<"version", <<"dev">> >>,
       <<"timestamp", <<"now">> >> >>
    \o (IF event.Error # <<>> THEN << <<"error", event.Error>> >> ELSE <<>>)
    \o event.Metadata

---------------------------------------------------------------------------
(* The inputs the calls are made with *)

\* n digits in arithmetic progression modulo 10
Progression(start, step, n) == [i \in 1..n |-> (start + step * (i - 1)) % 10]

\* the first nine digits of the CPFs the repository's tests use
KnownPrefixes == { <<1, 1, 1, 4, 4, 4, 7, 7, 7>>, <<5, 2, 9, 9, 8, 2, 2, 4, 7>> }

Prefixes == { Progression(a, b, 9) : a \in 0..9, b \in 0..MaxStep } \cup KnownPrefixes

\* every prefix with every two-digit suffix, and progressions of every length
DigitInputs ==
    { p \o <<d1, d2>> : p \in Prefixes, d1 \in 0..9, d2 \in 0..9 }
    \cup { Progression(a, b, n) : a \in 0..9, b \in 0..MaxStep, n \in 0..MaxDigits }

\* a progression of nine digits with one of them replaced
PrefixInput(a, b, k, v) == [Progression(a, b, 9) EXCEPT ![k] = v]

ToText(digits) == [i \in 1..Len(digits) |-> DigitChars[digits[i] + 1]]

\* the digits with sep written after the k-th digit when more digits follow
RECURSIVE Punctuate(_, _, _)
Punctuate(text, k, sep) ==
    IF Len(text) <= k THEN text
    ELSE SubSeq(text, 1, k) \o sep \o SubSeq(text, k + 1, Len(text))

Styles == {"plain", "dotted", "letters", "padded"}

Decorate(digits, style) ==
    LET t == ToText(digits) IN
    CASE style = "plain"   -> t
      [] style = "dotted"  -> Punctuate(Punctuate(Punctuate(t, 9, <<"-">>), 6, <<".">>), 3, <<".">>)
      [] style = "letters" -> Punctuate(Punctuate(t, 6, <<" ">>), 3, <<"a", "b", "c">>)
      [] style = "padded"  -> <<" ">> \o t \o <<"\t">>

\* the lines of the files: empty, blank, valid, repeated, padded valid,
\* padded and too short, wrong check digit
LineInputs ==
    { <<>>,
      <<" ", "\t">>,
      Decorate(<<5, 2, 9, 9, 8, 2, 2, 4, 7, 2, 5>>, "dotted"),
      Decorate(<<1, 1, 1, 1, 1, 1, 1, 1, 1, 1, 1>>, "dotted"),
      Decorate(<<5, 2, 9, 9, 8, 2, 2, 4, 7, 2, 5>>, "padded"),
      Decorate(<<1, 2, 3>>, "padded"),
      Decorate(<<1, 1, 1, 4, 4, 4, 7, 7, 7, 3, 4>>, "plain") }

NoFile == [exists |-> FALSE, lines |-> <<>>, readErrAt |-> 0]

FileLines == UNION { [1..n -> LineInputs] : n \in 0..MaxLines }

NoSource == [start |-> 0, step |-> 0, pos |-> 0, failAt |-> 0]

RandSources == [start : 0..9, step : 0..MaxStep, pos : {0}, failAt : 0..MaxFailAt]

NoCall == [op |-> "none", digits |-> <<>>, text |-> <<>>, byLength |-> FALSE,
           formatted |-> FALSE, invalid |-> FALSE, count |-> 0,
           file |-> NoFile, processor |-> "none"]

ValidateCall(d, st, b) ==
    [NoCall EXCEPT !.op = "ValidateCPF", !.digits = d, !.text = Decorate(d, st),
                   !.byLength = b]

FormatCall(d, st) ==
    [NoCall EXCEPT !.op = "FormatCPF", !.digits = d, !.text = Decorate(d, st)]

GetCDCall(d) == [NoCall EXCEPT !.op = "getCD", !.digits = d]

GenerateCall(f, i) ==
    [NoCall EXCEPT !.op = "GenerateCPF", !.formatted = f, !.invalid = i]

ProcessFileCall(fl, p) ==
    [NoCall EXCEPT !.op = "ProcessFile", !.file = fl, !.processor = p]

UnformatCall(d, st) ==
    [NoCall EXCEPT !.op = "UnformatCPF", !.digits = d, !.text = Decorate(d, st)]

GenerateJSONCall(n, f, i) ==
    [NoCall EXCEPT !.op = "GenerateCPFsJSON", !.count = n, !.formatted = f,
                   !.invalid = i]

---------------------------------------------------------------------------
(* package main: the command line *)

FilePrefix == <<"-", "-", "f", "i", "l", "e", "=">>

OutputPrefix == <<"-", "-", "o", "u", "t", "p", "u", "t", "=">>

CountPrefix == <<"-", "-", "c", "o", "u", "n", "t", "=">>

SeparatorPrefix == <<"-", "-", "s", "e", "p", "a", "r", "a", "t", "o", "r", "=">>

Newline == <<"\n">>

\* the files of the machine the commands run on: ok.txt can be read to its
\* end, bad.txt fails while it is read, any other name cannot be opened, and
\* a file under ro/ cannot be written
ValidLine == <<"5", "2", "9", ".", "9", "8", "2", ".", "2", "4", "7", "-", "2", "5">>

InvalidLine == <<"1", "2", "3", "4", "5", "6", "7", "8", "9", "0", "0">>

ShortLine == <<" ", "1", "2", "3", " ">>

OpenFile(filename) ==
    IF filename = <<"o", "k", ".", "t", "x", "t">>
    THEN [exists |-> TRUE, lines |-> <<ValidLine, <<>>, InvalidLine, ShortLine>>,
          readErrAt |-> 0]
    ELSE IF filename = <<"b", "a", "d", ".", "t", "x", "t">>
    THEN [exists |-> TRUE, lines |-> <<ValidLine, InvalidLine>>, readErrAt |-> 2]
    ELSE NoFile

CanWrite(filename) == ~HasPrefix(filename, <<"r", "o", "/">>)

\* what a run of main leaves behind: the exit status, the standard output, the
\* output file, the telemetry state and the events handed to goroutines; tracked
\* lists the success flags of the calls of Track and loaded tells that Initialize read the
\* persisted configuration
Outcome(t, loaded) ==
    [exit |-> 0, stdout |-> <<>>, file |-> NoData, tele |-> t, net |-> [pending |-> <<>>, sent |-> <<>>],
     tracked |-> <<>>, loaded |-> loaded, panic |-> FALSE]

\* one write on the standard output: fmt.Print ("print"), fmt.Println
\* ("println"), the JSON document ("json"), printHelp and printVersion
Write(o, kind, text) ==
    [o EXCEPT !.stdout = Append(@, [kind |-> kind, text |-> text, data |-> NoData])]

\* the result of WriteJSONOutput on the standard output or in the output file
Emit(o, w) ==
    [o EXCEPT !.stdout = IF w.stdout.written
                         THEN Append(@, [kind |-> "json", text |-> <<>>,
                                         data |-> w.stdout])
                         ELSE @,
              !.file = w.file]

\* the error path leaving main by a return: the deferred Track runs after it
TrackExitThenDeferred(o, command, err) ==
    [o EXCEPT !.net = Track(Track(o.net, o.tele, command, FALSE, err, <<>>),
                            o.tele, command, TRUE, NilErr, <<>>),
              !.tracked = @ \o <<FALSE, TRUE>>,
              !.exit = 1]

\* telemetry.Track(command, false, err, nil) followed by os.Exit(1)
TrackExit(o, command, err) ==
    [o EXCEPT !.net = Track(o.net, o.tele, command, FALSE, err, <<>>),
              !.tracked = Append(@, FALSE),
              !.exit = 1]

\* main returns: the deferred function of lines 127-133 runs
Return(o, args, command) ==
    [o EXCEPT !.net = Track(o.net, o.tele, command, TRUE, NilErr,
                            IF Len(args) > 1
                            THEN << <<"args", Join(Tail(args), <<" ">>)>> >>
                            ELSE <<>>),
              !.tracked = Append(@, TRUE)]

\* the first argument after the command that starts with prefix (0: none)
FirstWithPrefix(args, prefix) ==
    LET found == { i \in 2..Len(args) : HasPrefix(args[i], prefix) } IN
    IF found = {} THEN 0 ELSE CHOOSE i \in found : \A j \in found : i <= j

\* case "telemetry", before the deferred Track is registered; lastSet records
\* the last SetEnabled that returned no error
telemetryCommand(args, o, env) ==
    IF Len(args) < 2
    THEN [Write(o, "println", <<"Usage: cpf telemetry [enable|disable|status]">>)
              EXCEPT !.exit = 1]
    ELSE LET sub == ToLower(args[2])
             enable == sub = <<"e", "n", "a", "b", "l", "e">>
             s == SetEnabled(o.tele, enable, env)
         IN  IF sub = <<"e", "n", "a", "b", "l", "e">> \/ sub = <<"d", "i", "s", "a", "b", "l", "e">>
             THEN IF s.panic THEN [o EXCEPT !.exit = 2, !.panic = TRUE]
                  ELSE IF s.err # nil THEN [o EXCEPT !.tele = s.tele, !.exit = 1]
                  ELSE [Write(o, "println", IF enable THEN <<"Telemetry enabled">>
                                            ELSE <<"Telemetry disabled">>)
                            EXCEPT !.tele = [s.tele EXCEPT !.lastSet =
                                                IF enable THEN "enable" ELSE "disable"]]
             ELSE IF sub = <<"s", "t", "a", "t", "u", "s">>
             THEN Write(o, "println", IF IsEnabled(o.tele)
                                      THEN <<"Telemetry is enabled">>
                                      ELSE <<"Telemetry is disabled">>)
             ELSE [Write(o, "println", <<"Usage: cpf telemetry [enable|disable|status]">>)
                       EXCEPT !.exit = 1]

\* case "validate" exiting with status 1 when a CPF of the input is invalid
validateCommandExitInvalid(args, command, o) ==
    LET f == FirstWithPrefix(args, FilePrefix)
        pf == ProcessFile(OpenFile(TrimPrefix(args[f], FilePrefix)), "validate")
        k == FirstWithPrefix(args, OutputPrefix)
        outputFile == IF k = 0 THEN <<>> ELSE TrimPrefix(args[k], OutputPrefix)
    IN  IF f # 0 /\ pf.err # nil
        THEN TrackExit(o, command, Errorf(<<pf.err>>))
        ELSE IF f = 0 /\ Len(args) < 2
        THEN Write(TrackExit(o, command, Errorf(<<"missing CPF to validate">>)),
                   "help", <<>>)
        ELSE LET results == IF f # 0 THEN pf.results
                            ELSE [isNil |-> FALSE,
                                  elems |-> <<ValidateProcessor(args[2])>>]
                 w == WriteJSONOutput(results, outputFile, CanWrite(outputFile))
             IN  IF w.err # nil
                 THEN TrackExit(o, command, Errorf(<<w.err>>))
                 ELSE IF \E i \in 1..Len(results.elems) : ~results.elems[i].Valid
                 THEN TrackExit(Emit(o, w), command, Errorf(<<"invalid CPF">>))
                 ELSE Return(Emit(o, w), args, command)

\* case "validate", "-v"
validateCommand(args, command, o) ==
    LET f == FirstWithPrefix(args, FilePrefix)
        pf == ProcessFile(OpenFile(TrimPrefix(args[f], FilePrefix)), "validate")
        k == FirstWithPrefix(args, OutputPrefix)
        outputFile == IF k = 0 THEN <<>> ELSE TrimPrefix(args[k], OutputPrefix)
    IN  IF f # 0 /\ pf.err # nil
        THEN TrackExit(o, command, Errorf(<<pf.err>>))
        ELSE IF f = 0 /\ Len(args) < 2
        THEN Write(TrackExit(o, command, Errorf(<<"missing CPF to validate">>)),
                   "help", <<>>)
        ELSE LET results == IF f # 0 THEN pf.results
                            ELSE [isNil |-> FALSE,
                                  elems |-> <<ValidateProcessor(args[2])>>]
                 w == WriteJSONOutput(results, outputFile, CanWrite(outputFile))
             IN  IF w.err # nil
                 THEN TrackExit(o, command, Errorf(<<w.err>>))
                 ELSE Return(Emit(o, w), args, command)

\* case "format", "-f"
formatCommand(args, command, o) ==
    IF Len(args) < 2
    THEN Write(TrackExit(o, command, Errorf(<<"missing CPF to format">>)), "help", <<>>)
    ELSE LET r == FormatCPF(args[2]) IN
         IF r.err # nil
         THEN TrackExit(o, command, Errorf(<<r.err>>))
         ELSE Return(Write(o, "println", r.val), args, command)

DefaultOptions ==
    [invalid |-> FALSE, unformatted |-> FALSE, count |-> 1, separator |-> Newline,
     useJSON |-> FALSE, outputFile |-> <<>>, failed |-> FALSE, err |-> NilErr,
     help |-> FALSE]

\* the option loop of case "generate": it stops at the first option it rejects
RECURSIVE parseOptions(_, _, _)
parseOptions(args, i, opts) ==
    IF i > Len(args) THEN opts
    ELSE LET arg == args[i]
             countStr == TrimPrefix(arg, CountPrefix)
             n == strconvAtoi(countStr)
         IN  IF arg = <<"-", "-", "i", "n", "v", "a", "l", "i", "d">>
             THEN parseOptions(args, i + 1, [opts EXCEPT !.invalid = TRUE])
             ELSE IF arg = <<"-", "-", "u", "n", "f", "o", "r", "m", "a", "t", "t", "e", "d">>
             THEN parseOptions(args, i + 1, [opts EXCEPT !.unformatted = TRUE])
             ELSE IF arg = <<"-", "-", "j", "s", "o", "n">>
             THEN parseOptions(args, i + 1, [opts EXCEPT !.useJSON = TRUE])
             ELSE IF HasPrefix(arg, CountPrefix)
             THEN IF n.err # nil \/ n.val <= 0
                  THEN [opts EXCEPT !.failed = TRUE,
                                    !.err = IF n.err = nil THEN NilErr
                                            ELSE Errorf(<<"strconv.Atoi: parsing ">>
                                                        \o countStr \o <<n.err>>)]
                  ELSE parseOptions(args, i + 1, [opts EXCEPT !.count = n.val])
             ELSE IF HasPrefix(arg, SeparatorPrefix)
             THEN parseOptions(args, i + 1,
                      [opts EXCEPT !.separator = TrimPrefix(arg, SeparatorPrefix)])
             ELSE IF HasPrefix(arg, OutputPrefix)
             THEN parseOptions(args, i + 1,
                      [opts EXCEPT !.outputFile = TrimPrefix(arg, OutputPrefix)])
             ELSE [opts EXCEPT !.failed = TRUE, !.help = TRUE,
                               !.err = Errorf(<<"unknown option '">> \o arg \o <<"'">>)]

\* the loop "for i := 0; i < count; i++" of case "generate"
RECURSIVE generateTexts(_, _, _, _, _)
generateTexts(i, count, formatted, invalid, acc) ==
    LET appended(g) ==
            IF g.err # nil
            THEN [cpfs |-> acc.cpfs, err |-> g.err, src |-> g.src]
            ELSE generateTexts(i + 1, count, formatted, invalid,
                     [cpfs |-> Append(acc.cpfs, g.val), err |-> nil, src |-> g.src])
    IN  IF i >= count \/ acc.err # nil THEN acc
        ELSE appended(GenerateCPF(formatted, invalid, acc.src))

\* case "generate", "-g"
generateCommand(args, command, o, src) ==
    LET written(w) ==
            IF w.err # nil THEN TrackExit(o, command, Errorf(<<w.err>>))
            ELSE Return(Emit(o, w), args, command)
        asJSON(opts, j) ==
            IF j.err # nil THEN TrackExit(o, command, Errorf(<<j.err>>))
            ELSE written(WriteJSONOutput(j.results, opts.outputFile,
                                         CanWrite(opts.outputFile)))
        printed(opts, text) ==
            Return(IF opts.separator = Newline
                   THEN Write(Write(o, "print", text), "println", <<>>)
                   ELSE Write(o, "print", text),
                   args, command)
        asText(opts, g) ==
            IF g.err # nil THEN TrackExit(o, command, Errorf(<<g.err>>))
            ELSE printed(opts, Join(g.cpfs, opts.separator))
        run(opts) ==
            IF opts.failed
            THEN IF opts.help THEN Write(TrackExit(o, command, opts.err), "help", <<>>)
                 ELSE TrackExit(o, command, opts.err)
            ELSE IF opts.useJSON
            THEN asJSON(opts, GenerateCPFsJSON(opts.count, ~opts.unformatted,
                                               opts.invalid, src))
            ELSE asText(opts, generateTexts(0, opts.count, ~opts.unformatted,
                                            opts.invalid,
                                            [cpfs |-> <<>>, err |-> nil, src |-> src]))
    IN  run(parseOptions(args, 2, DefaultOptions))

\* func main, from Initialize to the return or the os.Exit
main(args, t, env, src) ==
    LET init == Initialize(t, env)
        o == Outcome(init.tele, init.loaded)
        command == ToLower(args[1])
    IN  IF Len(args) = 0 THEN Write(o, "help", <<>>)
        ELSE IF command = <<"t", "e", "l", "e", "m", "e", "t", "r", "y">> THEN telemetryCommand(args, o, env)
        ELSE IF command = <<"v", "e", "r", "s", "i", "o", "n">> THEN Return(Write(o, "version", <<>>), args, command)
        ELSE IF command \in {<<"h", "e", "l", "p">>, <<"-", "-", "h", "e", "l", "p">>, <<"-", "h">>}
        THEN Return(Write(o, "help", <<>>), args, command)
        ELSE IF command \in {<<"v", "a", "l", "i", "d", "a", "t", "e">>, <<"-", "v">>} THEN validateCommand(args, command, o)
        ELSE IF command \in {<<"f", "o", "r", "m", "a", "t">>, <<"-", "f">>} THEN formatCommand(args, command, o)
        ELSE IF command \in {<<"g", "e", "n", "e", "r", "a", "t", "e">>, <<"-", "g">>}
        THEN generateCommand(args, command, o, src)
        ELSE Write(TrackExit(o, command,
                             Errorf(<<"unknown command '">> \o command \o <<"'">>)),
                   "help", <<>>)

---------------------------------------------------------------------------
(* The invocations of the command line *)

\* the number of arguments after the command
MaxOptions == 2

ValidateWords ==
    { ValidLine, InvalidLine, <<"-", "-", "f", "i", "l", "e", "=", "o", "k", ".", "t", "x", "t">>, <<"-", "-", "f", "i", "l", "e", "=", "b", "a", "d", ".", "t", "x", "t">>,
      <<"-", "-", "f", "i", "l", "e", "=", "m", "i", "s", "s", "i", "n", "g", ".", "t", "x", "t">>, <<"-", "-", "o", "u", "t", "p", "u", "t", "=", "o", "u", "t", ".", "j", "s", "o", "n">>, <<"-", "-", "o", "u", "t", "p", "u", "t", "=", "r", "o", "/", "o", "u", "t", ".", "j", "s", "o", "n">> }

FormatWords ==
    { <<"5", "2", "9", "9", "8", "2", "2", "4", "7", "2", "5">>, <<"1", "2", "3">>, <<"-", "-", "f", "i", "l", "e", "=", "o", "k", ".", "t", "x", "t">>, <<"-", "-", "o", "u", "t", "p", "u", "t", "=", "o", "u", "t", ".", "j", "s", "o", "n">> }

GenerateWords ==
    { <<"-", "-", "i", "n", "v", "a", "l", "i", "d">>, <<"-", "-", "u", "n", "f", "o", "r", "m", "a", "t", "t", "e", "d">>, <<"-", "-", "j", "s", "o", "n">>, <<"-", "-", "c", "o", "u", "n", "t", "=", "2">>, <<"-", "-", "c", "o", "u", "n", "t", "=", "0">>,
      <<"-", "-", "c", "o", "u", "n", "t", "=", "x">>, <<"-", "-", "s", "e", "p", "a", "r", "a", "t", "o", "r", "=", ",">>, <<"-", "-", "o", "u", "t", "p", "u", "t", "=", "r", "o", "/", "o", "u", "t", ".", "j", "s", "o", "n">>, <<"-", "-", "v", "e", "r", "b", "o", "s", "e">> }

TelemetryWords == { <<"e", "n", "a", "b", "l", "e">>, <<"d", "i", "s", "a", "b", "l", "e">>, <<"s", "t", "a", "t", "u", "s">>, <<"r", "e", "s", "e", "t">> }

ArgLists(words) == UNION { [1..k -> words] : k \in 0..MaxOptions }

WithCommand(commands, words) ==
    { <<c>> \o w : c \in commands, w \in ArgLists(words) }

\* os.Args[1:] of the invocations of the model
Invocations ==
    {<<>>}
    \cup WithCommand({<<"v", "a", "l", "i", "d", "a", "t", "e">>, <<"-", "v">>, <<"-", "V">>}, ValidateWords)
    \cup WithCommand({<<"f", "o", "r", "m", "a", "t">>, <<"-", "f">>}, FormatWords)
    \cup WithCommand({<<"g", "e", "n", "e", "r", "a", "t", "e">>, <<"-", "g">>}, GenerateWords)
    \cup WithCommand({<<"t", "e", "l", "e", "m", "e", "t", "r", "y">>}, TelemetryWords)
    \cup WithCommand({<<"v", "e", "r", "s", "i", "o", "n">>, <<"h", "e", "l", "p">>, <<"-", "-", "h", "e", "l", "p">>, <<"-", "h">>, <<"c", "h", "e", "c", "k">>}, {})

Envs == {"ok", "nohome", "noread", "nowrite"}

\* a random source that never fails and one whose tenth draw fails
CliSources ==
    { [start |-> 1, step |-> 3, pos |-> 0, failAt |-> 0],
      [start |-> 1, step |-> 3, pos |-> 0, failAt |-> 10] }

\* no process runs while the library is called directly
NoProc == [pc |-> "none", args |-> <<>>, env |-> "none", exit |-> 0, stdout |-> <<>>,
           file |-> NoData, tracked |-> <<>>, loaded |-> FALSE, panic |-> FALSE,
           src |-> NoSource]

\* lastSet: the last telemetry enable or disable command that succeeded
NoTele == [config |-> NilConfig, disk |-> NoConfigFile, apiKey |-> FALSE,
           lastSet |-> "unset"]

NoNet == [pending |-> <<>>, sent |-> <<>>]

NoRet == [val |-> <<>>, ok |-> FALSE, err |-> nil, results |-> NilSlice,
          cd |-> <<0, 0>>]

NoOutput == [outputFile |-> <<>>, err |-> nil, stdout |-> NoData, file |-> NoData]

---------------------------------------------------------------------------
(* The state machine *)

Init ==
    /\ pc = "call"
    /\ \/ \E d \in DigitInputs, st \in Styles, b \in BOOLEAN :
             call = ValidateCall(d, st, b)
       \/ \E d \in DigitInputs, st \in Styles :
             call = FormatCall(d, st)
       \/ \E a \in 0..9, b \in 0..MaxStep, n \in 0..MaxDigits, st \in Styles :
             call = UnformatCall(Progression(a, b, n), st)
       \/ \E a \in 0..9, b \in 0..MaxStep, k \in 1..9, v \in 0..9 :
             call = GetCDCall(PrefixInput(a, b, k, v))
       \/ \E f \in BOOLEAN, i \in BOOLEAN :
             call = GenerateCall(f, i)
       \/ \E p \in {"validate", "format"} :
             \/ call = ProcessFileCall(NoFile, p)
             \/ \E l \in FileLines : \E k \in 0..(Len(l) + 1) :
                   call = ProcessFileCall([exists |-> TRUE, lines |-> l, readErrAt |-> k], p)
       \/ \E n \in 0..MaxCount, f \in BOOLEAN, i \in BOOLEAN :
             call = GenerateJSONCall(n, f, i)
    /\ ret = NoRet
    /\ rand = NoSource
    /\ output = NoOutput
    /\ proc = NoProc
    /\ tele = NoTele
    /\ net = NoNet

DoValidateCPF ==
    /\ pc = "call"
    /\ call.op = "ValidateCPF"
    /\ ret' = [NoRet EXCEPT !.ok = ValidateCPF(call.text, call.byLength)]
    /\ pc' = "returned"
    /\ UNCHANGED <<call, rand, output>>
    /\ UNCHANGED cliVars

DoUnformatCPF ==
    /\ pc = "call"
    /\ call.op = "UnformatCPF"
    /\ ret' = [NoRet EXCEPT !.val = UnformatCPF(call.text)]
    /\ pc' = "returned"
    /\ UNCHANGED <<call, rand, output>>
    /\ UNCHANGED cliVars

DoFormatCPF ==
    /\ pc = "call"
    /\ call.op = "FormatCPF"
    /\ LET r == FormatCPF(call.text) IN
       ret' = [NoRet EXCEPT !.val = r.val, !.err = r.err]
    /\ pc' = "returned"
    /\ UNCHANGED <<call, rand, output>>
    /\ UNCHANGED cliVars

DoGetCD ==
    /\ pc = "call"
    /\ call.op = "getCD"
    /\ \E g \in {getCD(call.digits)} :
         ret' = [NoRet EXCEPT !.cd = g.cd, !.err = g.err]
    /\ pc' = "returned"
    /\ UNCHANGED <<call, rand, output>>
    /\ UNCHANGED cliVars

DoGenerateCPF ==
    /\ pc = "call"
    /\ call.op = "GenerateCPF"
    /\ \E src \in RandSources :
         LET g == GenerateCPF(call.formatted, call.invalid, src) IN
         /\ ret' = [NoRet EXCEPT !.val = g.val, !.err = g.err]
         /\ rand' = g.src
    /\ pc' = "returned"
    /\ UNCHANGED <<call, output>>
    /\ UNCHANGED cliVars

DoProcessFile ==
    /\ pc = "call"
    /\ call.op = "ProcessFile"
    /\ LET r == ProcessFile(call.file, call.processor) IN
       ret' = [NoRet EXCEPT !.results = r.results, !.err = r.err]
    /\ pc' = "returned"
    /\ UNCHANGED <<call, rand, output>>
    /\ UNCHANGED cliVars

DoGenerateCPFsJSON ==
    /\ pc = "call"
    /\ call.op = "GenerateCPFsJSON"
    /\ \E src \in RandSources :
         LET g == GenerateCPFsJSON(call.count, call.formatted, call.invalid, src) IN
         /\ ret' = [NoRet EXCEPT !.results = g.results, !.err = g.err]
         /\ rand' = g.src
    /\ pc' = "returned"
    /\ UNCHANGED <<call, output>>
    /\ UNCHANGED cliVars

\* the caller hands the results of a successful batch call to WriteJSONOutput
DoWriteJSONOutput ==
    /\ pc = "returned"
    /\ call.op \in {"ProcessFile", "GenerateCPFsJSON"}
    /\ ret.err = nil
    /\ \E outputFile \in {<<>>, <<"o", "u", "t", ".", "j", "s", "o", "n">>}, writable \in BOOLEAN :
         LET w == WriteJSONOutput(ret.results, outputFile, writable) IN
         output' = [outputFile |-> outputFile, err |-> w.err,
                    stdout |-> w.stdout, file |-> w.file]
    /\ pc' = "written"
    /\ UNCHANGED <<call, ret, rand>>
    /\ UNCHANGED cliVars

Next ==
    \/ DoValidateCPF
    \/ DoUnformatCPF
    \/ DoFormatCPF
    \/ DoGetCD
    \/ DoGenerateCPF
    \/ DoProcessFile
    \/ DoGenerateCPFsJSON
    \/ DoWriteJSONOutput

Spec == Init /\ [][Next]_vars

---------------------------------------------------------------------------
(* The state machine of the command line: processes run one after another *)
(* on a machine that keeps telemetry.json between them                     *)

\* the build sets apiKey or leaves it empty; no configuration file exists yet
CliInit ==
    /\ pc = "cli"
    /\ call = NoCall
    /\ ret = NoRet
    /\ rand = NoSource
    /\ output = NoOutput
    /\ proc = NoProc
    /\ \E key \in BOOLEAN : tele = [NoTele EXCEPT !.apiKey = key]
    /\ net = NoNet

\* a process starts: its globals hold their zero values
Start ==
    /\ proc.pc = "none"
    /\ \E args \in Invocations :
         proc' = [NoProc EXCEPT !.pc = "started", !.args = args]
    /\ UNCHANGED <<tele, net>>
    /\ UNCHANGED libVars

\* func main runs to its return or to os.Exit
Main ==
    /\ proc.pc = "started"
    /\ \E env \in Envs, src \in CliSources :
         \E o \in {main(proc.args, tele, env, src)} :
            /\ proc' = [proc EXCEPT !.pc = "finished", !.env = env, !.src = src,
                                    !.exit = o.exit,
                                    !.stdout = o.stdout, !.file = o.file,
                                    !.tracked = o.tracked, !.loaded = o.loaded,
                                    !.panic = o.panic]
            /\ tele' = o.tele
            /\ net' = o.net
    /\ UNCHANGED libVars

\* the goroutine of Track posts its event before the process is gone
SendEvent ==
    /\ proc.pc = "finished"
    /\ net.pending # <<>>
    /\ net' = [pending |-> Tail(net.pending),
               sent |-> Append(net.sent, sendEvent(Head(net.pending)))]
    /\ UNCHANGED <<proc, tele>>
    /\ UNCHANGED libVars

\* the process is gone, and with it its globals and the goroutines that have
\* not run; telemetry.json stays
Exit ==
    /\ proc.pc = "finished"
    /\ proc' = NoProc
    /\ net' = NoNet
    /\ tele' = [tele EXCEPT !.config = NilConfig]
    /\ UNCHANGED libVars

CliNext ==
    \/ Start
    \/ Main
    \/ SendEvent
    \/ Exit

CliSpec == CliInit /\ [][CliNext]_vars

---------------------------------------------------------------------------
(* Vocabulary of the properties *)

\* the digit-only projection of a text, as a sequence of digits 0..9
RECURSIVE DigitProjection(_)
DigitProjection(text) ==
    IF text = <<>> THEN <<>>
    ELSE IF \E d \in 0..9 : DigitChars[d + 1] = Head(text)
         THEN <<CHOOSE d \in 0..9 : DigitChars[d + 1] = Head(text)>>
              \o DigitProjection(Tail(text))
         ELSE DigitProjection(Tail(text))

\* one digit repeated throughout
AllSame(d) == Len(d) > 0 /\ \A i \in 1..Len(d) : d[i] = d[1]

\* the last two of eleven digits are the check digits getCD computes from the first nine
ChecksumMatches(d) == <<d[10], d[11]>> = getCD(SubSeq(d, 1, 9)).cd

IsBlank(line) == \A i \in 1..Len(line) : IsSpace(line[i])

NonBlank(lines) == { i \in 1..Len(lines) : ~IsBlank(lines[i]) }

\* the index of the k-th non-blank line
KthNonBlank(lines, k) ==
    CHOOSE i \in NonBlank(lines) : Cardinality({ j \in NonBlank(lines) : j < i }) = k - 1

\* where the i-th of eleven digits stands in DDD.DDD.DDD-DD
FormattedIndex(i) == i + (IF i > 9 THEN 3 ELSE (i - 1) \div 3)

Returned(op) == pc # "call" /\ call.op = op

\* the draws one call of GenerateCPF makes
DrawsPerCall == IF call.invalid THEN 11 ELSE 9

---------------------------------------------------------------------------
(* The properties *)

\* C1: every value GenerateCPF(formatted, invalid = false) returns passes
\* ValidateCPF(v, false).
C1_GeneratedIsValid ==
    (Returned("GenerateCPF") /\ ~call.invalid /\ ret.err = nil)
        => ValidateCPF(ret.val, FALSE)

\* C2: ValidateCPF(text, false) is true exactly when the digit-only projection of
\* text has 11 digits, is not one digit repeated, and ends in the two check digits
\* getCD computes from its first nine digits.
C2_ValidateIffChecksum ==
    (Returned("ValidateCPF") /\ ~call.byLength)
        => /\ ret.ok = (/\ Len(call.digits) = 11
                        /\ ~AllSame(call.digits)
                        /\ ChecksumMatches(call.digits))
           /\ ret.err = nil

C2_Witness ==
    /\ Returned("ValidateCPF") /\ ~call.byLength /\ ret.ok
    /\ call.digits = <<5, 2, 9, 9, 8, 2, 2, 4, 7, 2, 5>>
    /\ Len(call.text) = 14

\* C3: every value GenerateCPF(formatted, invalid = true) returns fails
\* ValidateCPF(v, false).
C3_InvalidIsInvalid ==
    (Returned("GenerateCPF") /\ call.invalid /\ ret.err = nil)
        => ~ValidateCPF(ret.val, FALSE)

\* C4: ValidateCPF(text, true) is true exactly when the digit-only projection of
\* text has 11 digits and is not one digit repeated, whatever its last two digits.
C4_LengthOnlyIffShape ==
    (Returned("ValidateCPF") /\ call.byLength)
        => ret.ok = (Len(call.digits) = 11 /\ ~AllSame(call.digits))

C4_Witness ==
    /\ Returned("ValidateCPF") /\ call.byLength /\ ret.ok
    /\ Len(call.digits) = 11
    /\ ~ChecksumMatches(call.digits)

\* C5: FormatCPF(text) succeeds exactly when the digit-only projection of text has
\* 11 digits; the result is then those digits in order as DDD.DDD.DDD-DD, repeated
\* digits and wrong check digits included; otherwise it is an error and "".
C5_FormatIffElevenDigits ==
    Returned("FormatCPF")
        => IF Len(call.digits) = 11
           THEN /\ ret.err = nil
                /\ Len(ret.val) = 14
                /\ ret.val[4] = "." /\ ret.val[8] = "." /\ ret.val[12] = "-"
                /\ \A i \in 1..11 :
                     ret.val[FormattedIndex(i)] = DigitChars[call.digits[i] + 1]
           ELSE ret.err # nil /\ ret.val = <<>>

C5_Witness ==
    /\ Returned("FormatCPF") /\ ret.err = nil
    /\ call.digits = <<1, 1, 1, 1, 1, 1, 1, 1, 1, 1, 1>>
    /\ Len(ret.val) = 14

\* C6: ProcessFile returns one record per line that is not blank after trimming,
\* in the order of the lines; a blank line yields no record and moves no other.
C6_OneRecordPerNonBlankLine ==
    (Returned("ProcessFile") /\ ret.err = nil)
        => LET lines == call.file.lines
               recs == ret.results.elems
           IN  /\ Len(recs) = Cardinality(NonBlank(lines))
               /\ \A k \in 1..Len(recs) :
                    recs[k] = processFunc(call.processor,
                                          TrimSpace(lines[KthNonBlank(lines, k)]))

C6_Witness ==
    /\ Returned("ProcessFile") /\ ret.err = nil
    /\ Len(call.file.lines) = 3
    /\ IsBlank(call.file.lines[2])
    /\ Len(ret.results.elems) = 2
    /\ ret.results.elems[1].Original # ret.results.elems[2].Original

\* C7: every record of a batch carries in Original its source line exactly as it
\* stands in the input, leading and trailing white space included.
C7_OriginalIsSourceLine ==
    (Returned("ProcessFile") /\ ret.err = nil)
        => \A k \in 1..Len(ret.results.elems) :
             ret.results.elems[k].Original
                 = call.file.lines[KthNonBlank(call.file.lines, k)]

\* C8: a batch of FormatProcessor fails only when the file cannot be opened or
\* read; otherwise it has a record for every non-blank line, a line that does not
\* normalize to 11 digits giving a non-empty Error and CPF equal to the input line,
\* every other line giving the formatted value and an empty Error.
C8_LineFailureNeverAborts ==
    (Returned("ProcessFile") /\ call.processor = "format")
        => LET lines == call.file.lines
               recs == ret.results.elems
           IN  /\ (ret.err # nil) = (~call.file.exists \/ call.file.readErrAt # 0)
               /\ ret.err = nil =>
                    /\ Len(recs) = Cardinality(NonBlank(lines))
                    /\ \A k \in 1..Cardinality(NonBlank(lines)) :
                         LET line == lines[KthNonBlank(lines, k)] IN
                         IF Len(DigitProjection(line)) # 11
                         THEN recs[k].Error # "" /\ recs[k].CPF = line
                         ELSE recs[k].Error = "" /\ recs[k].CPF = FormatCPF(line).val

\* C9: GenerateCPFsJSON returns count records, each with only CPF set, when every
\* generation succeeds; when a generation fails it returns the error and a nil
\* result, never the records generated before the failure.
C9_AllOrNothing ==
    Returned("GenerateCPFsJSON")
        => IF rand.failAt = 0 \/ rand.failAt > call.count * DrawsPerCall
           THEN /\ ret.err = nil
                /\ Len(ret.results.elems) = call.count
                /\ \A k \in 1..Len(ret.results.elems) :
                     LET r == ret.results.elems[k] IN
                     /\ r.CPF # <<>>
                     /\ r.Valid = FALSE /\ r.Error = "" /\ r.Original = <<>>
           ELSE ret.err # nil /\ ret.results = NilSlice

C9_Witness ==
    /\ Returned("GenerateCPFsJSON")
    /\ call.count = 2
    /\ rand.failAt > DrawsPerCall
    /\ ret.err # nil

\* C10: the serialized record of a validation always has the field valid, when the
\* outcome is true and when it is false.
C10_ValidAlwaysSerialized ==
    (pc = "written" /\ call.op = "ProcessFile" /\ call.processor = "validate"
       /\ output.outputFile = <<>>)
        => \A k \in 1..Len(output.stdout.objects) :
             \E f \in 1..Len(output.stdout.objects[k]) :
                output.stdout.objects[k][f][1] = "valid"


\* C13: FormatCPF applied to its own result succeeds and returns that result again,
\* for every input whose digit-only projection has 11 digits.
C13_FormatIdempotent ==
    (Returned("FormatCPF") /\ Len(call.digits) = 11)
        => /\ ret.err = nil
           /\ FormatCPF(ret.val).err = nil
           /\ FormatCPF(ret.val).val = ret.val

C13_Witness ==
    /\ Returned("FormatCPF") /\ Len(call.digits) = 11
    /\ call.text # ret.val
    /\ ~IsRepeated(ToText(call.digits))
    /\ FormatCPF(ret.val).val = ret.val

\* C14: UnformatCPF returns the decimal digits of its input in their order and
\* nothing else, whatever their number, and applied to its own result returns it.
C14_UnformatIsDigitProjection ==
    Returned("UnformatCPF")
        => /\ Len(ret.val) = Len(call.digits)
           /\ \A i \in 1..Len(call.digits) : ret.val[i] = DigitChars[call.digits[i] + 1]
           /\ UnformatCPF(ret.val) = ret.val

C14_Witness ==
    /\ Returned("UnformatCPF")
    /\ Len(call.text) > Len(ret.val)
    /\ Len(ret.val) = 12
    /\ \E i \in 1..Len(call.text) : call.text[i] = "a"

\* C15: when no draw of the random source fails GenerateCPF returns no error and
\* 11 digits (unformatted) or DDD.DDD.DDD-DD (formatted), in valid and in invalid
\* mode; it never returns the error of getCD or of FormatCPF.
C15_GeneratedShape ==
    Returned("GenerateCPF")
        => /\ ret.err \in {nil, ErrRandomDigit}
           /\ (rand.failAt = 0 \/ rand.failAt > DrawsPerCall)
                => /\ ret.err = nil
                   /\ IF call.formatted
                      THEN /\ Len(ret.val) = 14
                           /\ ret.val[4] = "." /\ ret.val[8] = "." /\ ret.val[12] = "-"
                           /\ \A i \in (1..14) \ {4, 8, 12} : IsDigit(ret.val[i])
                      ELSE /\ Len(ret.val) = 11
                           /\ \A i \in 1..11 : IsDigit(ret.val[i])

C15_Witness ==
    /\ Returned("GenerateCPF") /\ call.formatted /\ call.invalid
    /\ ret.err = nil /\ Len(ret.val) = 14
    /\ rand.failAt = 12

---------------------------------------------------------------------------
(* Vocabulary of the command-line properties *)

\* main has run to its end in the current process
Finished == proc.pc = "finished"

\* the process ran one of these commands
Ran(commands) == Finished /\ Len(proc.args) > 0 /\ ToLower(proc.args[1]) \in commands

HasArg(word) == \E i \in 2..Len(proc.args) : proc.args[i] = word

Contains(text, sub) ==
    \E i \in 1..(Len(text) - Len(sub) + 1) : SubSeq(text, i, i + Len(sub) - 1) = sub

\* the arguments that are a CPF
CpfArguments ==
    { proc.args[i] : i \in { j \in 2..Len(proc.args) : Len(UnformatCPF(proc.args[j])) = 11 } }

\* the result records the process wrote, to the output file or on standard output
EmittedObjects ==
    IF proc.file.written THEN proc.file.objects
    ELSE IF \E i \in 1..Len(proc.stdout) : proc.stdout[i].kind = "json"
    THEN proc.stdout[CHOOSE i \in 1..Len(proc.stdout) : proc.stdout[i].kind = "json"].data.objects
    ELSE <<>>

NothingEmitted ==
    /\ ~proc.file.written
    /\ \A i \in 1..Len(proc.stdout) : proc.stdout[i].kind \notin {"json", "print", "println"}

\* the pieces of a text between the occurrences of a character
RECURSIVE Split(_, _)
Split(text, ch) ==
    IF \A i \in 1..Len(text) : text[i] # ch THEN <<text>>
    ELSE LET i == CHOOSE k \in 1..Len(text) :
                      text[k] = ch /\ \A j \in 1..(k - 1) : text[j] # ch
         IN  <<SubSeq(text, 1, i - 1)>> \o Split(SubSeq(text, i + 1, Len(text)), ch)

\* the file named by the first --file= argument, and the first --output= name
FileArgument == TrimPrefix(proc.args[FirstWithPrefix(proc.args, FilePrefix)], FilePrefix)

OutputArgument ==
    IF FirstWithPrefix(proc.args, OutputPrefix) = 0 THEN <<>>
    ELSE TrimPrefix(proc.args[FirstWithPrefix(proc.args, OutputPrefix)], OutputPrefix)

---------------------------------------------------------------------------
(* Claims about the command line and telemetry *)

\* C11: no property of an event sent to the collector contains a CPF that was
\* given on the command line.
C11_NoIdentifierInEvent ==
    \A e \in 1..Len(net.sent) : \A p \in 1..Len(net.sent[e]) :
        \A c \in CpfArguments : ~Contains(net.sent[e][p][2], c)

\* C12: while the flag is false, in memory or in telemetry.json, no event is
\* handed to a goroutine and none is sent, whether the command succeeds or fails.
C12_SendOnlyWhenEnabled ==
    (\/ tele.config.isNil \/ ~tele.config.Enabled
     \/ ~tele.disk.exists \/ ~tele.disk.Enabled)
        => net.pending = <<>> /\ net.sent = <<>>

\* a failing command in the first process of a machine without telemetry.json,
\* in a build that has the key: Track was called and nothing left
C12_Witness ==
    /\ Finished /\ proc.exit = 1 /\ proc.tracked = <<FALSE>>
    /\ tele.apiKey /\ ~proc.loaded
    /\ ~tele.config.isNil /\ ~tele.config.Enabled
    /\ tele.disk.exists /\ tele.lastSet = "unset"
    /\ net.pending = <<>> /\ net.sent = <<>>

\* C16: the validate command exits non-zero exactly for a missing argument, a
\* file that cannot be opened or read, or an output that cannot be written;
\* otherwise it exits zero having emitted one record per input, whatever the
\* validity of the inputs.
C16_InvalidIsNotAnError ==
    Ran({<<"v", "a", "l", "i", "d", "a", "t", "e">>, <<"-", "v">>}) =>
        LET hasFile == FirstWithPrefix(proc.args, FilePrefix) # 0
            missing == Len(proc.args) < 2
            unreadable == hasFile /\ FileArgument # <<"o", "k", ".", "t", "x", "t">>
            unwritable == HasPrefix(OutputArgument, <<"r", "o", "/">>)
            inputs == IF hasFile THEN Cardinality(NonBlank(OpenFile(FileArgument).lines))
                      ELSE 1
        IN  /\ proc.exit # 0 <=> (missing \/ unreadable \/ unwritable)
            /\ proc.exit = 0 => Len(EmittedObjects) = inputs
            /\ proc.exit # 0 => NothingEmitted

C16_Witness ==
    /\ Ran({<<"v", "a", "l", "i", "d", "a", "t", "e">>, <<"-", "v">>}) /\ proc.exit = 0
    /\ HasArg(<<"-", "-", "f", "i", "l", "e", "=", "o", "k", ".", "t", "x", "t">>)
    /\ Len(EmittedObjects) = 3
    /\ \E i \in 1..3 : <<"valid", TRUE>> \in { EmittedObjects[i][j] : j \in 1..Len(EmittedObjects[i]) }
    /\ \E i \in 1..3 : \A j \in 1..Len(EmittedObjects[i]) : EmittedObjects[i][j][1] # "valid"

\* C17: the command -V prints the version information and nothing else, and
\* exits zero.
C17_UpperVShowsVersion ==
    (Finished /\ Len(proc.args) > 0 /\ proc.args[1] = <<"-", "V">>)
        => /\ proc.exit = 0
           /\ proc.stdout = <<[kind |-> "version", text |-> <<>>, data |-> NoData]>>

\* C18: format --file=FILE on a readable file exits zero and emits the record
\* FormatProcessor makes of every non-blank line of FILE, in order.
C18_FormatProcessesFile ==
    (Ran({<<"f", "o", "r", "m", "a", "t">>, <<"-", "f">>}) /\ HasArg(<<"-", "-", "f", "i", "l", "e", "=", "o", "k", ".", "t", "x", "t">>))
        => LET lines == OpenFile(<<"o", "k", ".", "t", "x", "t">>).lines IN
           /\ proc.exit = 0
           /\ Len(EmittedObjects) = Cardinality(NonBlank(lines))
           /\ \A k \in 1..Len(EmittedObjects) :
                 EmittedObjects[k]
                     = MarshalResult(FormatProcessor(TrimSpace(KthNonBlank(lines, k))))

\* C19: the generate command emits exactly N identifiers (N the value of
\* --count, 1 without it) joined by the separator, followed by a newline only
\* when the separator is the newline; with a --count that is no positive
\* integer or with an unknown option, at any place, it exits non-zero and emits
\* nothing; it exits non-zero for nothing else than these, a failing random
\* source or an output that cannot be written.
C19_GenerateEmitsCount ==
    Ran({<<"g", "e", "n", "e", "r", "a", "t", "e">>, <<"-", "g">>}) =>
        LET rejected == HasArg(<<"-", "-", "c", "o", "u", "n", "t", "=", "0">>) \/ HasArg(<<"-", "-", "c", "o", "u", "n", "t", "=", "x">>) \/ HasArg(<<"-", "-", "v", "e", "r", "b", "o", "s", "e">>)
            N == IF HasArg(<<"-", "-", "c", "o", "u", "n", "t", "=", "2">>) THEN 2 ELSE 1
            sep == IF HasArg(<<"-", "-", "s", "e", "p", "a", "r", "a", "t", "o", "r", "=", ",">>) THEN <<",">> ELSE Newline
            json == HasArg(<<"-", "-", "j", "s", "o", "n">>)
            pieces == Split(proc.stdout[1].text, sep[1])
        IN  /\ rejected => proc.exit # 0 /\ NothingEmitted
            /\ proc.exit # 0 => NothingEmitted
            /\ (~rejected /\ proc.src.failAt = 0 /\ ~(json /\ HasArg(<<"-", "-", "o", "u", "t", "p", "u", "t", "=", "r", "o", "/", "o", "u", "t", ".", "j", "s", "o", "n">>)))
                  => proc.exit = 0
            /\ (proc.exit = 0 /\ json) => Len(EmittedObjects) = N
            /\ (proc.exit = 0 /\ ~json) =>
                  /\ Len(proc.stdout) = (IF sep = Newline THEN 2 ELSE 1)
                  /\ proc.stdout[1].kind = "print"
                  /\ sep = Newline =>
                        proc.stdout[2] = [kind |-> "println", text |-> <<>>, data |-> NoData]
                  /\ Len(pieces) = N
                  /\ \A i \in 1..Len(pieces) : Len(UnformatCPF(pieces[i])) = 11

C19_Witness ==
    /\ Ran({<<"g", "e", "n", "e", "r", "a", "t", "e">>, <<"-", "g">>}) /\ proc.exit = 0
    /\ HasArg(<<"-", "-", "c", "o", "u", "n", "t", "=", "2">>) /\ HasArg(<<"-", "-", "s", "e", "p", "a", "r", "a", "t", "o", "r", "=", ",">>)
    /\ Len(proc.stdout) = 1
    /\ Len(Split(proc.stdout[1].text, ",")) = 2

\* C20: telemetry status, in a process whose Initialize loaded telemetry.json,
\* reports what the last successful telemetry enable or disable set.
C20_StatusFollowsLastSet ==
    (/\ Finished /\ Len(proc.args) >= 2
     /\ ToLower(proc.args[1]) = <<"t", "e", "l", "e", "m", "e", "t", "r", "y">> /\ ToLower(proc.args[2]) = <<"s", "t", "a", "t", "u", "s">>
     /\ proc.loaded)
        => /\ tele.lastSet = "enable" =>
                 proc.stdout = <<[kind |-> "println", text |-> <<"Telemetry is enabled">>,
                                  data |-> NoData]>>
           /\ tele.lastSet = "disable" =>
                 proc.stdout = <<[kind |-> "println", text |-> <<"Telemetry is disabled">>,
                                  data |-> NoData]>>

---------------------------------------------------------------------------
(* Claims about the check digits and about validation *)

\* the sum over k = 1..9 of (c + s * k) * g[k]
RECURSIVE WeightedSumFrom(_, _, _, _)
WeightedSumFrom(g, c, s, k) ==
    IF k > Len(g) THEN 0
    ELSE (c + s * k) * g[k] + WeightedSumFrom(g, c, s, k + 1)

WeightedSum(g, c, s) == WeightedSumFrom(g, c, s, 1)

\* a remainder modulo 11 with 10 folded to 0
Fold(r) == IF r < 10 THEN r ELSE 0

\* the digit the usual CPF rule derives from a sum
StandardDigit(sum) == IF sum % 11 < 2 THEN 0 ELSE 11 - (sum % 11)

\* C21: for nine digits g, getCD returns d1 = fold((sum of k*g[k]) mod 11) and
\* d2 = fold((sum of (k-1)*g[k] + 9*d1) mod 11), fold taking 10 to 0; both are
\* in 0..9 and print as two characters.
C21_CheckDigitsDoubleModulo ==
    Returned("getCD") =>
        LET g == call.digits
            d1 == Fold(WeightedSum(g, 0, 1) % 11)
            d2 == Fold((WeightedSum(g, 0 - 1, 1) + 9 * d1) % 11)
        IN  /\ ret.err = nil
            /\ ret.cd = <<d1, d2>>
            /\ ret.cd[1] \in 0..9 /\ ret.cd[2] \in 0..9
            /\ Len(Itoa(ret.cd[1]) \o Itoa(ret.cd[2])) = 2

\* 123456789: the first remainder is 10 and folds to 0, the second digit is 9
C21_Witness ==
    /\ Returned("getCD")
    /\ call.digits = <<1, 2, 3, 4, 5, 6, 7, 8, 9>>
    /\ WeightedSum(call.digits, 0, 1) % 11 = 10
    /\ ret.cd = <<0, 9>>

\* C25: the digits of getCD are the standard CPF check digits: d1 from the sum
\* of (11-k)*g[k], d2 from the sum of (12-k)*g[k] + 2*d1, each sum giving 0 when
\* its remainder modulo 11 is below 2 and 11 minus the remainder otherwise.
C25_StandardCheckDigits ==
    Returned("getCD") =>
        LET g == call.digits
            d1 == StandardDigit(WeightedSum(g, 11, 0 - 1))
            d2 == StandardDigit(WeightedSum(g, 12, 0 - 1) + 2 * d1)
        IN  ret.cd = <<d1, d2>>

\* both branches of the standard rule: a first sum with remainder 1, a second
\* with remainder above 1
C25_Witness ==
    /\ Returned("getCD")
    /\ WeightedSum(call.digits, 11, 0 - 1) % 11 = 1
    /\ ret.cd[1] = 0
    /\ ret.cd[2] > 1

\* C22: of the 100 two-digit suffixes of a nine-digit prefix exactly one makes
\* ValidateCPF(prefix+suffix, false) true, and none when the prefix is one digit
\* repeated; this for the prefix of every CPF generated in invalid mode, whose
\* last two digits are two more draws, and for every prefix given to getCD.
ValidSuffixes(prefix) ==
    { s \in (0..9) \X (0..9) : ValidateCPF(ToText(prefix \o s), FALSE) }

C26_ValidationDependsOnDigits ==
    Returned("ValidateCPF") =>
        /\ ret.ok = ValidateCPF(UnformatCPF(call.text), call.byLength)
        /\ FormatCPF(call.text).err = nil =>
              ValidateCPF(FormatCPF(call.text).val, call.byLength) = ret.ok
        /\ (~call.byLength /\ ret.ok) => ValidateCPF(call.text, TRUE)

\* a valid CPF written with letters and spaces around its digits
C26_Witness ==
    /\ Returned("ValidateCPF") /\ ~call.byLength /\ ret.ok
    /\ Len(call.text) > 14
    /\ FormatCPF(call.text).err = nil
    /\ FormatCPF(call.text).val # call.text

---------------------------------------------------------------------------
(* Claims about the delivery of events and the persisted configuration *)

\* C23: a process does not end while an event that Track handed to a goroutine
\* has not been posted.
C23_EventDeliveredBeforeExit ==
    [][(proc.pc = "finished" /\ proc'.pc = "none") => net.pending = <<>>]_vars

\* C24: a run of main that is not a telemetry command leaves an existing
\* telemetry.json as it is.
C24_ExistingConfigUnchanged ==
    [][(/\ proc.pc = "started" /\ proc'.pc = "finished"
        /\ tele.disk.exists
        /\ ~(Len(proc.args) > 0 /\ ToLower(proc.args[1]) = <<"t", "e", "l", "e", "m", "e", "t", "r", "y">>))
          => tele'.disk = tele.disk]_vars

\* Initialize returned no error in the current process
InitializeSucceeded == Finished /\ (proc.loaded \/ proc.env \in {"ok", "noread"})

\* C27: once Initialize has succeeded the flag in memory equals the flag
\* telemetry.json holds, also after a SetEnabled that failed.
C27_MemoryEqualsPersisted ==
    InitializeSucceeded
        => /\ ~tele.config.isNil
           /\ tele.disk.exists
           /\ tele.config.Enabled = tele.disk.Enabled

\* C28: a run that ends by os.Exit(1) has called Track once, with success
\* false; a run that returns from main has called it once, with success true;
\* the telemetry commands and the run without arguments have not called it.
C28_TrackedOnce ==
    Finished =>
        IF Len(proc.args) = 0
              \/ ToLower(proc.args[1]) = <<"t", "e", "l", "e", "m", "e", "t", "r", "y">>
        THEN proc.tracked = <<>>
        ELSE IF proc.exit # 0 THEN proc.tracked = <<FALSE>>
        ELSE proc.tracked = <<TRUE>>

\* a format command that fails on its argument, with telemetry enabled: one
\* event, of a failure, is handed over
C28_Witness ==
    /\ Ran({<<"f", "o", "r", "m", "a", "t">>}) /\ Len(proc.args) = 2
    /\ proc.exit = 1 /\ proc.tracked = <<FALSE>>
    /\ Len(net.pending) = 1 /\ ~net.pending[1].Success

====
